---------------------------- MODULE Spec2Model ----------------------------
(***************************************************************************)
(* The scanner of the Lox interpreter front-end (scanner.go) together with *)
(* the error sink of the driver (reportError / report).                    *)
(*                                                                         *)
(* The source text is a sequence of runes, each rune its code point.  The  *)
(* Go code indexes the source from 0; here source[i] of the code is        *)
(* source[i + 1], and start, current keep the values they have in the code.*)
(* One step of the model is one iteration of a loop of the code: one call  *)
(* of scanToken up to the point where it either returns or enters one of   *)
(* its inner loops, one iteration of an inner loop, or the code that       *)
(* follows an inner loop.  pc says which loop the scanner is in.           *)
(***************************************************************************)
EXTENDS Integers, Sequences, FiniteSets, TLC

(***************************************************************************)
(* Bounds of the model.                                                    *)
(***************************************************************************)
\* longest source text over the whole alphabet
MaxLen == 4

\* longest source text over the comment alphabet
MaxCommentLen == 6

\* longest source text over the operator alphabet
MaxOperatorLen == 5

\* longest source text over the number alphabet
MaxNumberLen == 5

\* longest source text over the identifier alphabet
MaxIdentifierLen == 4

\* longest source text over the string alphabet
MaxStringLen == 5

\* longest source text over the blank alphabet
MaxBlankLen == 5

\* longest source text over the alphabet with U+0000
MaxNulLen == 4

(***************************************************************************)
(* Runes the code names.                                                   *)
(***************************************************************************)
NulRune == 0

Newline == 10

Tab == 9

CarriageReturn == 13

Space == 32

Bang == 33

Quote == 34

Star == 42

Dot == 46

Slash == 47

Less == 60

Equal == 61

Greater == 62

Digit0 == 48

Digit9 == 57

UpperA == 65

UpperZ == 90

Underscore == 95

LowerA == 97

LowerZ == 122

\* keywords: the reserved words, as rune sequences, with their TokenType
keywords ==
    <<97, 110, 100>> :> "AND" @@
    <<99, 108, 97, 115, 115>> :> "CLASS" @@
    <<101, 108, 115, 101>> :> "ELSE" @@
    <<102, 97, 108, 115, 101>> :> "FALSE" @@
    <<102, 111, 114>> :> "FOR" @@
    <<102, 117, 110>> :> "FUN" @@
    <<105, 102>> :> "IF" @@
    <<110, 105, 108>> :> "NIL" @@
    <<111, 114>> :> "OR" @@
    <<112, 114, 105, 110, 116>> :> "PRINT" @@
    <<114, 101, 116, 117, 114, 110>> :> "RETURN" @@
    <<115, 117, 112, 101, 114>> :> "SUPER" @@
    <<116, 104, 105, 115>> :> "THIS" @@
    <<116, 114, 117, 101>> :> "TRUE" @@
    <<118, 97, 114>> :> "VAR" @@
    <<119, 104, 105, 108, 101>> :> "WHILE"

\* the single-character cases of scanToken:  ( ) { } , . - + ; *
Punctuation ==
    40 :> "LEFT_PAREN" @@ 41 :> "RIGHT_PAREN" @@
    123 :> "LEFT_BRACE" @@ 125 :> "RIGHT_BRACE" @@
    44 :> "COMMA" @@ Dot :> "DOT" @@ 45 :> "MINUS" @@ 43 :> "PLUS" @@
    59 :> "SEMICOLON" @@ Star :> "STAR"

\* the cases of scanToken that look one rune ahead for '=':
\* <<type without '=', type with '='>>
Operators ==
    Bang :> <<"BANG", "BANG_EQUAL">> @@
    Equal :> <<"EQUAL", "EQUAL_EQUAL">> @@
    Less :> <<"LESS", "LESS_EQUAL">> @@
    Greater :> <<"GREATER", "GREATER_EQUAL">>

Whitespace == {Space, CarriageReturn, Tab}

(***************************************************************************)
(* The source texts the model scans.                                       *)
(***************************************************************************)
\* newline, space, '"', '*', '.', '/', '1', '<', '=', '@', 'o', 'r'
Alphabet == {Newline, Space, Quote, Star, Dot, Slash, 49, Less, Equal, 64, 111, 114}

\* newline, '"', '*', '/', '1'
CommentAlphabet == {Newline, Quote, Star, Slash, 49}

\* '!', '<', '=', '>'
OperatorAlphabet == {Bang, Less, Equal, Greater}

\* '-', '.', '0', '1', 'e'
NumberAlphabet == {45, Dot, Digit0, 49, 101}

\* space, '1', 'O', '_', 'o', 'r', U+00E9 (a letter outside ASCII)
IdentifierAlphabet == {Space, 49, 79, Underscore, 111, 114, 233}

\* newline, '"', '\', 'o'
StringAlphabet == {Newline, Quote, 92, 111}

\* tab, newline, carriage return, space, '*'
BlankAlphabet == {Tab, Newline, CarriageReturn, Space, Star}

\* "orchid", "and1", "_if", "Or", "or or1"
IdentifierSamples ==
    {<<111, 114, 99, 104, 105, 100>>, <<97, 110, 100, 49>>,
     <<Underscore, 105, 102>>, <<79, 114>>, <<111, 114, Space, 111, 114, 49>>}

\* U+0000, '"', '*', '.', '/', '1', 'o'
NulAlphabet == {NulRune, Quote, Star, Dot, Slash, 49, 111}

Texts(alphabet, n) == UNION {[1..k -> alphabet] : k \in 0..n}

VARIABLES
    source,     \* Scanner.source
    tokens,     \* Scanner.tokens
    start,      \* Scanner.start
    current,    \* Scanner.current
    line,       \* Scanner.line
    hadError,   \* Lox.hadError
    pc,         \* the loop of the scanner that is running
    reports,    \* what report has printed: <<line, error>> records, in order
    spans,      \* history: <<start, current>> at the time each token was added
    scanned,    \* history: <<start, current>> at the return of each call of scanToken
    reportAt,   \* history: current at the time of each report
    args,       \* len(args) in main
    exitStatus, \* <<>> while the process runs, <<status>> when it has exited
    failedBefore \* history: a line of the prompt before this one had an error

\* the state of the process outside the scanner and the Lox value
driver == <<args, exitStatus, failedBefore>>

vars ==
    <<source, tokens, start, current, line, hadError, pc, reports, spans, scanned, reportAt,
      args, exitStatus, failedBefore>>

(***************************************************************************)
(* Token literals.  Literal is nil, a string or a float64.                 *)
(***************************************************************************)
Nil == [kind |-> "nil", value |-> <<>>]

StringLiteral(text) == [kind |-> "string", value |-> text]

NumberLiteral(value) == [kind |-> "number", value |-> value]

(***************************************************************************)
(* Helpers of the scanner.  cur is the value of s.current at the call.     *)
(***************************************************************************)
isAtEnd(cur) == cur >= Len(source)

peek(cur) == IF isAtEnd(cur) THEN NulRune ELSE source[cur + 1]

\* mutant of peekNext: a digit, not U+0000, is returned behind the end
peekNextNoSentinel(cur) == IF cur + 1 >= Len(source) THEN Digit0 ELSE source[cur + 2]

peekNext(cur) == IF cur + 1 >= Len(source) THEN NulRune ELSE source[cur + 2]

\* mutant of isDigit: no lower bound, so U+0000 is a digit
isDigitNoLowerBound(c) == c <= Digit9

isDigit(c) == c >= Digit0 /\ c <= Digit9

\* mutant of isAlpha: the runes outside ASCII count as letters
isAlphaUnicode(c) ==
    \/ (c >= LowerA /\ c <= LowerZ)
    \/ (c >= UpperA /\ c <= UpperZ)
    \/ c = Underscore
    \/ c > 127

isAlpha(c) ==
    \/ (c >= LowerA /\ c <= LowerZ)
    \/ (c >= UpperA /\ c <= UpperZ)
    \/ c = Underscore

isAlphaNumeric(c) == isAlpha(c) \/ isDigit(c)

\* mutant of advance: the increment of s.current left out
advanceStuck(cur) == cur

\* the value of s.current after advance(); the rune it returns is source[cur + 1]
advance(cur) == cur + 1

\* mutant of match: the comparison with the expected rune left out
matchAny(cur, expected) == IF isAtEnd(cur) THEN FALSE ELSE TRUE

\* match(expected) called with s.current = cur: TRUE iff it consumes a rune
match(cur, expected) ==
    IF isAtEnd(cur) THEN FALSE
    ELSE IF source[cur + 1] # expected THEN FALSE
    ELSE TRUE

\* s.current after match(expected) called with s.current = cur
afterMatch(cur, expected) == IF match(cur, expected) THEN cur + 1 ELSE cur

(***************************************************************************)
(* strconv.ParseFloat(text, 64) on the texts number() hands it: digits,    *)
(* optionally followed by '.' and digits.  The only error on such a text   *)
(* is a range error: the value rounds to +Inf, which is the case from      *)
(* 2^1024 - 2^970 on, a number of 309 digits.  The decoded value is kept   *)
(* as its decimal expansion without leading and trailing zeros, which      *)
(* names the float64 uniquely for texts of up to 15 significant digits.    *)
(***************************************************************************)
MaxFloatDigits == 309

HalfwayToInfinity ==
    <<
       49, 55, 57, 55, 54, 57, 51, 49, 51, 52, 56, 54, 50, 51, 49, 53, 56, 48, 55, 57,
       51, 55, 50, 56, 57, 55, 49, 52, 48, 53, 51, 48, 51, 52, 49, 53, 48, 55, 57, 57,
       51, 52, 49, 51, 50, 55, 49, 48, 48, 51, 55, 56, 50, 54, 57, 51, 54, 49, 55, 51,
       55, 55, 56, 57, 56, 48, 52, 52, 52, 57, 54, 56, 50, 57, 50, 55, 54, 52, 55, 53,
       48, 57, 52, 54, 54, 52, 57, 48, 49, 55, 57, 55, 55, 53, 56, 55, 50, 48, 55, 48,
       57, 54, 51, 51, 48, 50, 56, 54, 52, 49, 54, 54, 57, 50, 56, 56, 55, 57, 49, 48,
       57, 52, 54, 53, 53, 53, 53, 52, 55, 56, 53, 49, 57, 52, 48, 52, 48, 50, 54, 51,
       48, 54, 53, 55, 52, 56, 56, 54, 55, 49, 53, 48, 53, 56, 50, 48, 54, 56, 49, 57,
       48, 56, 57, 48, 50, 48, 48, 48, 55, 48, 56, 51, 56, 51, 54, 55, 54, 50, 55, 51,
       56, 53, 52, 56, 52, 53, 56, 49, 55, 55, 49, 49, 53, 51, 49, 55, 54, 52, 52, 55,
       53, 55, 51, 48, 50, 55, 48, 48, 54, 57, 56, 53, 53, 53, 55, 49, 51, 54, 54, 57,
       53, 57, 54, 50, 50, 56, 52, 50, 57, 49, 52, 56, 49, 57, 56, 54, 48, 56, 51, 52,
       57, 51, 54, 52, 55, 53, 50, 57, 50, 55, 49, 57, 48, 55, 52, 49, 54, 56, 52, 52,
       52, 51, 54, 53, 53, 49, 48, 55, 48, 52, 51, 52, 50, 55, 49, 49, 53, 53, 57, 54,
       57, 57, 53, 48, 56, 48, 57, 51, 48, 52, 50, 56, 56, 48, 49, 55, 55, 57, 48, 52,
       49, 55, 52, 52, 57, 55, 55, 57, 50
    >>

RECURSIVE DropLeadingZeros(_)
DropLeadingZeros(d) ==
    IF d # <<>> /\ Head(d) = Digit0 THEN DropLeadingZeros(Tail(d)) ELSE d

RECURSIVE DropTrailingZeros(_)
DropTrailingZeros(d) ==
    IF d # <<>> /\ d[Len(d)] = Digit0
    THEN DropTrailingZeros(SubSeq(d, 1, Len(d) - 1))
    ELSE d

DotIndex(text) ==
    IF \E i \in 1..Len(text) : text[i] = Dot
    THEN CHOOSE i \in 1..Len(text) : text[i] = Dot
    ELSE Len(text) + 1

IntegerDigits(text) == DropLeadingZeros(SubSeq(text, 1, DotIndex(text) - 1))

FractionDigits(text) == DropTrailingZeros(SubSeq(text, DotIndex(text) + 1, Len(text)))

\* a < b for two digit sequences of the same length
DigitsLess(a, b) ==
    \E i \in 1..Len(a) :
        /\ a[i] < b[i]
        /\ \A j \in 1..(i - 1) : a[j] = b[j]

ParseFloatErr(text) ==
    LET d == IntegerDigits(text)
    IN  \/ Len(d) > MaxFloatDigits
        \/ Len(d) = MaxFloatDigits /\ ~DigitsLess(d, HalfwayToInfinity)

ParseFloat(text) == <<IntegerDigits(text), FractionDigits(text)>>

(***************************************************************************)
(* Adding a token and reporting an error.  Both are the last thing a step  *)
(* does, so they read the values start, current and line have after it.    *)
(***************************************************************************)
\* mutant of addTokenWithLiteral: the text taken from start + 1, as string()
\* takes its value
addTokenWithLiteralFromNext(tokenType, literal) ==
    /\ tokens' = Append(tokens, [TokenType |-> tokenType,
                                 Lexeme    |-> SubSeq(source, (start' + 1) + 1, current'),
                                 Literal   |-> literal,
                                 Line      |-> line'])
    /\ spans' = Append(spans, <<start', current'>>)

addTokenWithLiteral(tokenType, literal) ==
    /\ tokens' = Append(tokens, [TokenType |-> tokenType,
                                 Lexeme    |-> SubSeq(source, start' + 1, current'),
                                 Literal   |-> literal,
                                 Line      |-> line'])
    /\ spans' = Append(spans, <<start', current'>>)

addToken(tokenType) == addTokenWithLiteral(tokenType, Nil)

\* mutant of reportError: the error printed by reportError and by report
reportErrorTwice(err) ==
    /\ reports' = reports \o <<[line |-> line', err |-> err], [line |-> line', err |-> err]>>
    /\ reportAt' = reportAt \o <<current', current'>>
    /\ hadError' = TRUE

\* Lox.reportError, Lox.report: print the line and the error, set hadError
reportError(err) ==
    /\ reports' = Append(reports, [line |-> line', err |-> err])
    /\ reportAt' = Append(reportAt, current')
    /\ hadError' = TRUE

NoToken == UNCHANGED <<tokens, spans>>

NoReport == UNCHANGED <<reports, reportAt, hadError>>

\* scanToken returns to the loop of ScanTokens
return == pc' = "scan" /\ scanned' = Append(scanned, <<start', current'>>)

\* scanToken goes on in the loop named
goto(loop) == pc' = loop /\ UNCHANGED scanned

(***************************************************************************)
(* NewScanner: the state before ScanTokens is called.                      *)
(***************************************************************************)
\* runs of '1' and of '2' as long as the longest float64 and one longer
LongNumbers ==
    {[i \in 1..n |-> d] : n \in {MaxFloatDigits, MaxFloatDigits + 1}, d \in {49, 50}}

Sources ==
    Texts(Alphabet, MaxLen) \cup Texts(CommentAlphabet, MaxCommentLen)
        \cup Texts(OperatorAlphabet, MaxOperatorLen) \cup LongNumbers
        \cup Texts(NumberAlphabet, MaxNumberLen)
        \cup Texts(IdentifierAlphabet, MaxIdentifierLen)
        \cup Texts(StringAlphabet, MaxStringLen)
        \cup Texts(BlankAlphabet, MaxBlankLen)
        \cup Texts(NulAlphabet, MaxNulLen)
        \cup DOMAIN keywords \cup IdentifierSamples

Init ==
    /\ source \in Sources
    /\ tokens = <<>>
    /\ start = 0
    /\ current = 0
    /\ line = 1
    /\ hadError = FALSE
    /\ pc = "scan"
    /\ reports = <<>>
    /\ spans = <<>>
    /\ scanned = <<>>
    /\ reportAt = <<>>
    /\ args = 1
    /\ exitStatus = <<>>
    /\ failedBefore = FALSE

(***************************************************************************)
(* ScanTokens: one iteration of its loop is one call of scanToken.         *)
(* scanToken holds when the iteration runs; ch is the rune its call of     *)
(* advance() returns.                                                      *)
(***************************************************************************)
scanToken ==
    /\ pc = "scan"
    /\ ~isAtEnd(current)
    /\ start' = current

ch == source[current + 1]

\* case '(' ... case '*'
ScanPunctuation ==
    /\ scanToken
    /\ ch \in DOMAIN Punctuation
    /\ current' = advance(current)
    /\ line' = line
    /\ UNCHANGED <<source, driver, driver>>
    /\ addToken(Punctuation[ch])
    /\ return
    /\ NoReport

\* case '!', '=', '<', '>'
ScanOperator ==
    /\ scanToken
    /\ ch \in DOMAIN Operators
    /\ current' = afterMatch(advance(current), Equal)
    /\ line' = line
    /\ UNCHANGED <<source, driver, driver>>
    /\ IF match(advance(current), Equal)
       THEN addToken(Operators[ch][2])
       ELSE addToken(Operators[ch][1])
    /\ return
    /\ NoReport

\* mutant of ScanSlash: the '*' of "/*" is left for blockComment
ScanSlashKeepsStar ==
    /\ scanToken
    /\ ch = Slash
    /\ line' = line
    /\ UNCHANGED <<source, driver, driver>>
    /\ IF match(advance(current), Slash)
       THEN /\ current' = afterMatch(advance(current), Slash)
            /\ goto("lineComment")
            /\ NoToken
       ELSE IF match(advance(current), Star)
       THEN /\ current' = advance(current)
            /\ goto("blockComment")
            /\ NoToken
       ELSE /\ current' = advance(current)
            /\ addToken("SLASH")
            /\ return
    /\ NoReport

\* case '/'
ScanSlash ==
    /\ scanToken
    /\ ch = Slash
    /\ line' = line
    /\ UNCHANGED <<source, driver, driver>>
    /\ IF match(advance(current), Slash)
       THEN /\ current' = afterMatch(advance(current), Slash)
            /\ goto("lineComment")
            /\ NoToken
       ELSE IF match(advance(current), Star)
       THEN /\ current' = afterMatch(advance(current), Star)
            /\ goto("blockComment")
            /\ NoToken
       ELSE /\ current' = advance(current)
            /\ addToken("SLASH")
            /\ return
    /\ NoReport

\* mutant of ScanWhitespace: a carriage return counts as a line
ScanWhitespaceCountsCR ==
    /\ scanToken
    /\ ch \in Whitespace
    /\ current' = advance(current)
    /\ line' = IF ch = CarriageReturn THEN line + 1 ELSE line
    /\ UNCHANGED <<source, driver, driver>>
    /\ return
    /\ NoToken
    /\ NoReport

\* case ' ', '\r', '\t'
ScanWhitespace ==
    /\ scanToken
    /\ ch \in Whitespace
    /\ current' = advance(current)
    /\ UNCHANGED <<source, driver, line>>
    /\ return
    /\ NoToken
    /\ NoReport

\* case '\n'
ScanNewline ==
    /\ scanToken
    /\ ch = Newline
    /\ current' = advance(current)
    /\ line' = line + 1
    /\ UNCHANGED <<source, driver, driver>>
    /\ return
    /\ NoToken
    /\ NoReport

\* case '"': string() is entered
ScanQuote ==
    /\ scanToken
    /\ ch = Quote
    /\ current' = advance(current)
    /\ goto("string")
    /\ NoToken
    /\ NoReport
    /\ UNCHANGED <<source, driver, line>>

\* the runes the cases of the switch name
Named == DOMAIN Punctuation \cup DOMAIN Operators \cup Whitespace \cup {Slash, Newline, Quote}

\* default, isDigit(ch): number() is entered
ScanDigit ==
    /\ scanToken
    /\ ch \notin Named
    /\ isDigit(ch)
    /\ current' = advance(current)
    /\ goto("number")
    /\ NoToken
    /\ NoReport
    /\ UNCHANGED <<source, driver, line>>

\* default, isAlpha(ch): identifier() is entered
ScanAlpha ==
    /\ scanToken
    /\ ch \notin Named
    /\ ~isDigit(ch)
    /\ isAlpha(ch)
    /\ current' = advance(current)
    /\ goto("identifier")
    /\ NoToken
    /\ NoReport
    /\ UNCHANGED <<source, driver, line>>

\* mutant of ScanUnexpected: the scan ends at a rune it does not know
ScanUnexpectedStops ==
    /\ scanToken
    /\ ch \notin Named
    /\ ~isDigit(ch)
    /\ ~isAlpha(ch)
    /\ current' = advance(current)
    /\ line' = line
    /\ UNCHANGED <<source, driver, driver>>
    /\ reportError("ErrUnexpectedCharacter")
    /\ scanned' = Append(scanned, <<start', current'>>)
    /\ tokens' = Append(tokens, [TokenType |-> "EOF", Lexeme |-> <<>>,
                                 Literal |-> Nil, Line |-> line])
    /\ spans' = Append(spans, <<current', current'>>)
    /\ pc' = "done"

\* default, neither: the rune is reported
ScanUnexpected ==
    /\ scanToken
    /\ ch \notin Named
    /\ ~isDigit(ch)
    /\ ~isAlpha(ch)
    /\ current' = advance(current)
    /\ line' = line
    /\ UNCHANGED <<source, driver, driver>>
    /\ reportError("ErrUnexpectedCharacter")
    /\ return
    /\ NoToken

\* mutant of ScanTokens: EOF appended through addToken, with the last lexeme
ScanTokensByAddToken ==
    /\ pc = "scan"
    /\ isAtEnd(current)
    /\ UNCHANGED <<source, driver, start, current, line>>
    /\ addToken("EOF")
    /\ goto("done")
    /\ NoReport

\* mutant of ScanTokens: EOF on the line the scanner was constructed with
ScanTokensOnFirstLine ==
    /\ pc = "scan"
    /\ isAtEnd(current)
    /\ tokens' = Append(tokens, [TokenType |-> "EOF", Lexeme |-> <<>>,
                                 Literal |-> Nil, Line |-> 1])
    /\ spans' = Append(spans, <<current, current>>)
    /\ goto("done")
    /\ NoReport
    /\ UNCHANGED <<source, driver, start, current, line>>

\* the loop of ScanTokens is left: the EOF token is appended
ScanTokens ==
    /\ pc = "scan"
    /\ isAtEnd(current)
    /\ tokens' = Append(tokens, [TokenType |-> "EOF", Lexeme |-> <<>>,
                                 Literal |-> Nil, Line |-> line])
    /\ spans' = Append(spans, <<current, current>>)
    /\ goto("done")
    /\ NoReport
    /\ UNCHANGED <<source, driver, start, current, line>>

(***************************************************************************)
(* The line comment loop of scanToken.                                     *)
(***************************************************************************)
LineCommentLoop ==
    /\ pc = "lineComment"
    /\ peek(current) # Newline /\ ~isAtEnd(current)
    /\ current' = advance(current)
    /\ NoToken
    /\ NoReport
    /\ UNCHANGED <<source, driver, start, line, pc, scanned>>

\* mutant of LineCommentEnd: the newline that ends the comment is consumed
LineCommentEndPastNewline ==
    /\ pc = "lineComment"
    /\ ~(peek(current) # Newline /\ ~isAtEnd(current))
    /\ current' = IF isAtEnd(current) THEN current ELSE advance(current)
    /\ UNCHANGED <<source, driver, start, line>>
    /\ return
    /\ NoToken
    /\ NoReport

LineCommentEnd ==
    /\ pc = "lineComment"
    /\ ~(peek(current) # Newline /\ ~isAtEnd(current))
    /\ UNCHANGED <<source, driver, start, current, line>>
    /\ return
    /\ NoToken
    /\ NoReport

(***************************************************************************)
(* blockComment                                                            *)
(***************************************************************************)
BlockCommentClose ==
    /\ pc = "blockComment"
    /\ ~isAtEnd(current)
    /\ peek(current) = Star /\ peekNext(current) = Slash
    /\ current' = advance(advance(current))
    /\ UNCHANGED <<source, driver, start, line>>
    /\ return
    /\ NoToken
    /\ NoReport

\* mutant of BlockCommentLoop: newlines in a block comment are not counted
BlockCommentLoopNoLineCount ==
    /\ pc = "blockComment"
    /\ ~isAtEnd(current)
    /\ ~(peek(current) = Star /\ peekNext(current) = Slash)
    /\ line' = line
    /\ current' = advance(current)
    /\ NoToken
    /\ NoReport
    /\ UNCHANGED <<source, driver, start, pc, scanned>>

BlockCommentLoop ==
    /\ pc = "blockComment"
    /\ ~isAtEnd(current)
    /\ ~(peek(current) = Star /\ peekNext(current) = Slash)
    /\ line' = IF peek(current) = Newline THEN line + 1 ELSE line
    /\ current' = advance(current)
    /\ NoToken
    /\ NoReport
    /\ UNCHANGED <<source, driver, start, pc, scanned>>

BlockCommentUnterminated ==
    /\ pc = "blockComment"
    /\ isAtEnd(current)
    /\ UNCHANGED <<source, driver, start, current, line>>
    /\ reportError("ErrUnterminatedBlockComment")
    /\ return
    /\ NoToken

(***************************************************************************)
(* string                                                                  *)
(***************************************************************************)
\* mutant of StringLoop: newlines in a string are not counted
StringLoopNoLineCount ==
    /\ pc = "string"
    /\ peek(current) # Quote /\ ~isAtEnd(current)
    /\ line' = line
    /\ current' = advance(current)
    /\ NoToken
    /\ NoReport
    /\ UNCHANGED <<source, driver, start, pc, scanned>>

\* mutant of StringLoop: a backslash takes the rune after it into the string
StringLoopEscapes ==
    /\ pc = "string"
    /\ peek(current) # Quote /\ ~isAtEnd(current)
    /\ line' = IF peek(current) = Newline THEN line + 1 ELSE line
    /\ current' = IF peek(current) = 92 /\ ~isAtEnd(advance(current))
                  THEN advance(advance(current))
                  ELSE advance(current)
    /\ NoToken
    /\ NoReport
    /\ UNCHANGED <<source, driver, start, pc, scanned>>

StringLoop ==
    /\ pc = "string"
    /\ peek(current) # Quote /\ ~isAtEnd(current)
    /\ line' = IF peek(current) = Newline THEN line + 1 ELSE line
    /\ current' = advance(current)
    /\ NoToken
    /\ NoReport
    /\ UNCHANGED <<source, driver, start, pc, scanned>>

\* mutant of StringUnterminated: a token is added for the open string
StringUnterminatedAddsToken ==
    /\ pc = "string"
    /\ ~(peek(current) # Quote /\ ~isAtEnd(current))
    /\ isAtEnd(current)
    /\ UNCHANGED <<source, driver, start, current, line>>
    /\ reportError("ErrUnterminatedString")
    /\ addTokenWithLiteral("STRING", StringLiteral(SubSeq(source, (start + 1) + 1, current)))
    /\ return

StringUnterminated ==
    /\ pc = "string"
    /\ ~(peek(current) # Quote /\ ~isAtEnd(current))
    /\ isAtEnd(current)
    /\ UNCHANGED <<source, driver, start, current, line>>
    /\ reportError("ErrUnterminatedString")
    /\ return
    /\ NoToken

StringClose ==
    /\ pc = "string"
    /\ ~(peek(current) # Quote /\ ~isAtEnd(current))
    /\ ~isAtEnd(current)
    /\ current' = advance(current)
    /\ UNCHANGED <<source, driver, start, line>>
    /\ addTokenWithLiteral("STRING",
            StringLiteral(SubSeq(source, (start + 1) + 1, current' - 1)))
    /\ return
    /\ NoReport

(***************************************************************************)
(* number                                                                  *)
(***************************************************************************)
NumberLoop ==
    /\ pc = "number"
    /\ isDigit(peek(current))
    /\ current' = advance(current)
    /\ NoToken
    /\ NoReport
    /\ UNCHANGED <<source, driver, start, line, pc, scanned>>

NumberFraction ==
    /\ pc = "number"
    /\ ~isDigit(peek(current))
    /\ peek(current) = Dot /\ isDigit(peekNext(current))
    /\ current' = advance(current)
    /\ goto("fraction")
    /\ NoToken
    /\ NoReport
    /\ UNCHANGED <<source, driver, start, line>>

FractionLoop ==
    /\ pc = "fraction"
    /\ isDigit(peek(current))
    /\ current' = advance(current)
    /\ NoToken
    /\ NoReport
    /\ UNCHANGED <<source, driver, start, line, pc, scanned>>

\* the digits of number() are consumed: with no fraction, or after the fraction
NumberScanned ==
    IF pc = "number"
    THEN ~isDigit(peek(current)) /\ ~(peek(current) = Dot /\ isDigit(peekNext(current)))
    ELSE pc = "fraction" /\ ~isDigit(peek(current))

NumberEnd ==
    /\ NumberScanned
    /\ UNCHANGED <<source, driver, start, current, line>>
    /\ LET text == SubSeq(source, start + 1, current)
       IN  IF ParseFloatErr(text)
           THEN reportError("ErrInvalidNumberLiteral") /\ NoToken
           ELSE addTokenWithLiteral("NUMBER", NumberLiteral(ParseFloat(text))) /\ NoReport
    /\ return

(***************************************************************************)
(* identifier                                                              *)
(***************************************************************************)
IdentifierLoop ==
    /\ pc = "identifier"
    /\ isAlphaNumeric(peek(current))
    /\ current' = advance(current)
    /\ NoToken
    /\ NoReport
    /\ UNCHANGED <<source, driver, start, line, pc, scanned>>

\* mutant of IdentifierEnd: a keyword at the start of the text gives its type
IdentifierEndByPrefix ==
    /\ pc = "identifier"
    /\ ~isAlphaNumeric(peek(current))
    /\ UNCHANGED <<source, driver, start, current, line>>
    /\ LET text == SubSeq(source, start + 1, current)
           heads == {n \in 1..Len(text) : SubSeq(text, 1, n) \in DOMAIN keywords}
       IN  IF heads # {}
           THEN addToken(keywords[SubSeq(text, 1, CHOOSE n \in heads : TRUE)])
           ELSE addToken("IDENTIFIER")
    /\ return
    /\ NoReport

IdentifierEnd ==
    /\ pc = "identifier"
    /\ ~isAlphaNumeric(peek(current))
    /\ UNCHANGED <<source, driver, start, current, line>>
    /\ LET text == SubSeq(source, start + 1, current)
       IN  IF text \in DOMAIN keywords
           THEN addToken(keywords[text])
           ELSE addToken("IDENTIFIER")
    /\ return
    /\ NoReport

Next ==
    \/ ScanPunctuation
    \/ ScanOperator
    \/ ScanSlash
    \/ ScanWhitespace
    \/ ScanNewline
    \/ ScanQuote
    \/ ScanDigit
    \/ ScanAlpha
    \/ ScanUnexpected
    \/ ScanTokens
    \/ LineCommentLoop
    \/ LineCommentEnd
    \/ BlockCommentClose
    \/ BlockCommentLoop
    \/ BlockCommentUnterminated
    \/ StringLoop
    \/ StringUnterminated
    \/ StringClose
    \/ NumberLoop
    \/ NumberFraction
    \/ FractionLoop
    \/ NumberEnd
    \/ IdentifierLoop
    \/ IdentifierEnd

Spec == Init /\ [][Next]_vars

\* the scanner is sequential code that runs to its end: a step that can be
\* taken is taken
LiveSpec == Spec /\ WF_vars(Next)

(***************************************************************************)
(* The driver: main, runFile, runPrompt and run.  pc is "main" before the  *)
(* arguments are looked at, "prompt" at the top of the loop of runPrompt,  *)
(* "exited" when the process has ended, and the scanner's between the      *)
(* call of NewScanner and the return of ScanTokens.                        *)
(***************************************************************************)
\* the runes unicode.IsSpace holds for
SpaceRunes ==
    {9, 10, 11, 12, 13, 32, 133, 160, 5760, 8232, 8233, 8239, 8287, 12288}
        \cup 8192..8202

\* strings.TrimSpace
RECURSIVE TrimLeft(_)
TrimLeft(text) ==
    IF text # <<>> /\ Head(text) \in SpaceRunes THEN TrimLeft(Tail(text)) ELSE text

RECURSIVE TrimRight(_)
TrimRight(text) ==
    IF text # <<>> /\ text[Len(text)] \in SpaceRunes
    THEN TrimRight(SubSeq(text, 1, Len(text) - 1))
    ELSE text

TrimSpace(text) == TrimRight(TrimLeft(text))

\* the contents of a script file
FileTexts == Texts(Alphabet, MaxLen)

\* the lines bufio.Scanner returns: no newline in them
Lines == Texts(Alphabet \ {Newline}, MaxLen)

\* l := &Lox{}, args := os.Args[1:]
DriverInit ==
    /\ args \in 0..2
    /\ hadError = FALSE
    /\ pc = "main"
    /\ exitStatus = <<>>
    /\ failedBefore = FALSE
    /\ source = <<>>
    /\ tokens = <<>>
    /\ start = 0
    /\ current = 0
    /\ line = 1
    /\ reports = <<>>
    /\ spans = <<>>
    /\ scanned = <<>>
    /\ reportAt = <<>>

\* run(text) up to the call of ScanTokens: NewScanner(text, l)
run(text) ==
    /\ source' = text
    /\ tokens' = <<>>
    /\ start' = 0
    /\ current' = 0
    /\ line' = 1
    /\ pc' = "scan"
    /\ reports' = <<>>
    /\ spans' = <<>>
    /\ scanned' = <<>>
    /\ reportAt' = <<>>

\* the values the scanner, between two runs, and the history keep
Idle == UNCHANGED <<source, tokens, start, current, line, reports, spans, scanned, reportAt>>

\* run has returned: its scanner and its tokens are gone
Returned ==
    /\ source' = <<>>
    /\ tokens' = <<>>
    /\ start' = 0
    /\ current' = 0
    /\ line' = 1
    /\ reports' = <<>>
    /\ spans' = <<>>
    /\ scanned' = <<>>
    /\ reportAt' = <<>>

\* len(args) > 1
MainUsage ==
    /\ pc = "main"
    /\ args > 1
    /\ exitStatus' = <<64>>
    /\ pc' = "exited"
    /\ Idle
    /\ UNCHANGED <<hadError, args, failedBefore>>

\* len(args) == 1, os.ReadFile fails: runFile returns the error
RunFileReadError ==
    /\ pc = "main"
    /\ args = 1
    /\ exitStatus' = <<65>>
    /\ pc' = "exited"
    /\ Idle
    /\ UNCHANGED <<hadError, args, failedBefore>>

\* len(args) == 1, os.ReadFile returns the text: runFile calls run
RunFile ==
    /\ pc = "main"
    /\ args = 1
    /\ \E text \in FileTexts : run(text)
    /\ UNCHANGED <<hadError, driver>>

\* run has returned to runFile
RunFileExit ==
    /\ pc = "done"
    /\ args = 1
    /\ exitStatus' = IF hadError THEN <<65>> ELSE <<0>>
    /\ pc' = "exited"
    /\ Idle
    /\ UNCHANGED <<hadError, args, failedBefore>>

\* len(args) == 0: runPrompt is entered
RunPrompt ==
    /\ pc = "main"
    /\ args = 0
    /\ pc' = "prompt"
    /\ Idle
    /\ UNCHANGED <<hadError, driver>>

\* scanner.Scan() returns true: the line is trimmed and run
PromptRead ==
    /\ pc = "prompt"
    /\ \E text \in Lines : run(TrimSpace(text))
    /\ UNCHANGED <<hadError, driver>>

\* scanner.Scan() returns false: the loop is left, main returns
PromptEOF ==
    /\ pc = "prompt"
    /\ exitStatus' = <<0>>
    /\ pc' = "exited"
    /\ Idle
    /\ UNCHANGED <<hadError, args, failedBefore>>

\* mutant of PromptReset: the flag is kept
PromptResetKeepsFlag ==
    /\ pc = "done"
    /\ args = 0
    /\ hadError' = hadError
    /\ failedBefore' = (failedBefore \/ hadError)
    /\ pc' = "prompt"
    /\ Returned
    /\ UNCHANGED <<args, exitStatus>>

\* run has returned to runPrompt: l.hadError = false
PromptReset ==
    /\ pc = "done"
    /\ args = 0
    /\ hadError' = FALSE
    /\ failedBefore' = (failedBefore \/ hadError)
    /\ pc' = "prompt"
    /\ Returned
    /\ UNCHANGED <<args, exitStatus>>

DriverNext ==
    \/ Next
    \/ MainUsage
    \/ RunFileReadError
    \/ RunFile
    \/ RunFileExit
    \/ RunPrompt
    \/ PromptRead
    \/ PromptEOF
    \/ PromptReset

\* the program from main on
DriverSpec == DriverInit /\ [][DriverNext]_vars

(***************************************************************************)
(* Notions the properties are stated with.                                 *)
(***************************************************************************)
\* the number of newlines in source[0:n]
Newlines(n) == Cardinality({i \in 1..n : source[i] = Newline})

\* the token ScanTokens appends last, on the line given
EOFToken(ln) == [TokenType |-> "EOF", Lexeme |-> <<>>, Literal |-> Nil, Line |-> ln]

TokenTypes == [k \in 1..Len(tokens) |-> tokens[k].TokenType]

(***************************************************************************)
(* C1: the sequence ScanTokens returns is never empty, its last token is   *)
(* EOF with an empty lexeme, no token before it is EOF, and for the empty  *)
(* source it is the one EOF token on line 1.                               *)
(***************************************************************************)
C1_EndsInOneEOF ==
    pc = "done" =>
        /\ Len(tokens) >= 1
        /\ tokens[Len(tokens)].TokenType = "EOF"
        /\ tokens[Len(tokens)].Lexeme = <<>>
        /\ \A k \in 1..(Len(tokens) - 1) : tokens[k].TokenType # "EOF"
        /\ source = <<>> => tokens = <<EOFToken(1)>>

\* a source with a token and an unterminated block comment has been scanned
C1_Witness ==
    /\ pc = "done"
    /\ Len(tokens) >= 2
    /\ \E k \in 1..Len(reports) : reports[k].err = "ErrUnterminatedBlockComment"

\* a step of the scan: the cursor does not move back, a call of scanToken
\* moves it forward, a step of an inner loop moves it forward or ends the call
Progress ==
    /\ current' >= current
    /\ pc = "scan" /\ pc' # "done" => current' > current
    /\ pc \notin {"scan", "done"} => current' > current \/ pc' = "scan"

(***************************************************************************)
(* C2: ScanTokens terminates.  A call of scanToken moves the cursor        *)
(* forward, the cursor never moves back, a step of an inner loop moves the *)
(* cursor forward or leaves the loop, and the scan ends with the cursor at *)
(* the end of the source.                                                  *)
(***************************************************************************)
C2_Terminates ==
    /\ [][Progress]_vars
    /\ <>(pc = "done" /\ current = Len(source))

\* a scan that ran an inner loop over three runes or more has ended
C2_Witness ==
    /\ pc = "done"
    /\ current = Len(source)
    /\ \E i \in 1..Len(scanned) : scanned[i][2] - scanned[i][1] >= 3

(***************************************************************************)
(* C3: the lexeme of every token but EOF is not empty and is the slice     *)
(* source[start:current] with start < current that was consumed for the    *)
(* token; the slices of successive tokens do not overlap.                  *)
(***************************************************************************)
C3_LexemeIsSlice ==
    /\ Len(spans) = Len(tokens)
    /\ \A k \in 1..Len(tokens) :
          tokens[k].TokenType # "EOF" =>
              /\ 0 <= spans[k][1]
              /\ spans[k][1] < spans[k][2]
              /\ spans[k][2] <= Len(source)
              /\ tokens[k].Lexeme # <<>>
              /\ tokens[k].Lexeme = SubSeq(source, spans[k][1] + 1, spans[k][2])
              /\ k > 1 => spans[k - 1][2] <= spans[k][1]

\* a token of three runes that does not start the source has been added
C3_Witness ==
    \E k \in 1..Len(tokens) :
        /\ Len(tokens[k].Lexeme) >= 3
        /\ spans[k][1] > 0

(***************************************************************************)
(* C4: the lines of the tokens, EOF included, never decrease from one      *)
(* token to the next.                                                      *)
(***************************************************************************)
C4_LinesNonDecreasing ==
    \A k \in 1..(Len(tokens) - 1) : tokens[k].Line <= tokens[k + 1].Line

\* a scan with an error and a string over several lines has ended
C4_Witness ==
    /\ pc = "done"
    /\ reports # <<>>
    /\ \E k \in 1..(Len(tokens) - 1) :
          /\ tokens[k].TokenType = "STRING"
          /\ tokens[k].Line > 1 + Newlines(spans[k][1])

(***************************************************************************)
(* C5: the line of every token is the line of its last rune: 1 plus the    *)
(* number of newlines of the source before the end of the token.  A string *)
(* over several lines so has the line of its closing quote, and a token    *)
(* after a block comment the line the comment ends on, or a later one.     *)
(***************************************************************************)
C5_LineOfLastRune ==
    \A k \in 1..Len(tokens) : tokens[k].Line = 1 + Newlines(spans[k][2])

\* a string whose closing quote is on a later line than its opening quote
\* has been added
C5_Witness ==
    \E k \in 1..Len(tokens) :
        /\ tokens[k].TokenType = "STRING"
        /\ tokens[k].Line > 1 + Newlines(spans[k][1])

(***************************************************************************)
(* The calls of scanToken, read off the source.  A call that started at    *)
(* source[s] was made for the rune there.                                  *)
(***************************************************************************)
\* a rune that is no case of the switch, no digit and no letter
Unknown(r) == r \notin Named /\ ~isDigit(r) /\ ~isAlpha(r)

\* a rune that is scanned the same way whatever follows it
Plain(r) == r \in DOMAIN Punctuation \cup Whitespace \cup {Newline} \/ Unknown(r)

\* the calls of scanToken so far consumed the source from its start, one
\* after the other, without a gap
Contiguous ==
    /\ scanned # <<>> => scanned[1][1] = 0
    /\ \A i \in 1..(Len(scanned) - 1) : scanned[i][2] = scanned[i + 1][1]
    /\ \A i \in 1..Len(scanned) : scanned[i][1] < scanned[i][2]
    /\ pc \in {"scan", "done"} /\ scanned # <<>> => scanned[Len(scanned)][2] = current

\* source[s] is a double quote and there is none after it
OpensUnterminatedString(s) ==
    /\ source[s + 1] = Quote
    /\ \A i \in (s + 2)..Len(source) : source[i] # Quote

\* source[s], source[s + 1] are "/*" and there is no "*/" after them
OpensUnterminatedComment(s) ==
    /\ source[s + 1] = Slash
    /\ s + 2 <= Len(source)
    /\ source[s + 2] = Star
    /\ \A i \in (s + 3)..(Len(source) - 1) : ~(source[i] = Star /\ source[i + 1] = Slash)

\* source[s], source[s + 1] are "/*"
OpensBlockComment(s) ==
    /\ source[s + 1] = Slash
    /\ s + 2 <= Len(source)
    /\ source[s + 2] = Star

\* source[s], source[s + 1] are "//"
OpensLineComment(s) ==
    /\ source[s + 1] = Slash
    /\ s + 2 <= Len(source)
    /\ source[s + 2] = Slash

\* the error of the call of scanToken that consumed source[s:e], "none" if
\* the text has none
ErrorOf(s, e) ==
    IF OpensUnterminatedString(s) THEN "ErrUnterminatedString"
    ELSE IF OpensUnterminatedComment(s) THEN "ErrUnterminatedBlockComment"
    ELSE IF isDigit(source[s + 1]) /\ ParseFloatErr(SubSeq(source, s + 1, e))
        THEN "ErrInvalidNumberLiteral"
    ELSE IF Unknown(source[s + 1]) THEN "ErrUnexpectedCharacter"
    ELSE "none"

HasError(call) == ErrorOf(call[1], call[2]) # "none"

\* a call of scanToken for the text of a token: no blank, no comment, no error
HasToken(call) ==
    /\ ~HasError(call)
    /\ source[call[1] + 1] \notin Whitespace \cup {Newline}
    /\ ~OpensLineComment(call[1])
    /\ ~OpensBlockComment(call[1])

\* the calls of scanToken that met an error, in the order of the source
Detected == SelectSeq(scanned, HasError)

(***************************************************************************)
(* C6: an error does not end the scan.  ScanTokens returns with the cursor *)
(* at the end of the source, the calls of scanToken having consumed all of *)
(* it without a gap; whatever was reported, the tokens before EOF are the  *)
(* texts of the calls that scanned the text of a token, each with its      *)
(* token; and a punctuation rune that comes after an unexpected rune, with *)
(* nothing but plain runes between the two, has its token.                 *)
(***************************************************************************)
C6_ScanNeverStopsEarly ==
    /\ Contiguous
    /\ pc # "done" => spans = SelectSeq(scanned, HasToken)
    /\ pc = "done" =>
          /\ current = Len(source)
          /\ spans = Append(SelectSeq(scanned, HasToken), <<current, current>>)
          /\ \A k \in 1..Len(reports) :
                reports[k].err = "ErrUnexpectedCharacter" =>
                    \A q \in (reportAt[k] + 1)..Len(source) :
                        /\ \A i \in (reportAt[k] + 1)..q : Plain(source[i])
                        /\ source[q] \in DOMAIN Punctuation
                        => \E j \in 1..Len(tokens) :
                              /\ spans[j] = <<q - 1, q>>
                              /\ tokens[j].TokenType = Punctuation[source[q]]
                              /\ tokens[j].Lexeme = <<source[q]>>

\* a scan has ended that reported an unexpected rune and added a token for
\* a later rune
C6_Witness ==
    /\ pc = "done"
    /\ \E k \in 1..Len(reports), j \in 1..Len(tokens) :
          /\ reports[k].err = "ErrUnexpectedCharacter"
          /\ tokens[j].TokenType # "EOF"
          /\ spans[j][1] >= reportAt[k]

(***************************************************************************)
(* C7: a string that is open at the end of the input gets no token and one *)
(* ErrUnterminatedString report, the last report of the scan, on the line  *)
(* of the end of the input; nothing else is reported as an unterminated    *)
(* string, and the sequence returned ends in EOF.                          *)
(***************************************************************************)
C7_UnterminatedString ==
    /\ \A i \in 1..Len(scanned) :
          OpensUnterminatedString(scanned[i][1]) =>
              /\ i = Len(scanned)
              /\ scanned[i][2] = Len(source)
              /\ reports # <<>>
              /\ reports[Len(reports)] =
                    [line |-> 1 + Newlines(Len(source)), err |-> "ErrUnterminatedString"]
              /\ reportAt[Len(reports)] = Len(source)
              /\ \A j \in 1..Len(tokens) :
                    tokens[j].TokenType # "EOF" => spans[j][2] <= scanned[i][1]
    /\ \A k \in 1..Len(reports) :
          reports[k].err = "ErrUnterminatedString" =>
              /\ k = Len(reports)
              /\ scanned # <<>>
              /\ OpensUnterminatedString(scanned[Len(scanned)][1])
              /\ pc = "done" => tokens[Len(tokens)].TokenType = "EOF"

\* a scan has ended inside a string with a newline in it, after a token
C7_Witness ==
    /\ pc = "done"
    /\ Len(tokens) >= 2
    /\ reports # <<>>
    /\ reports[Len(reports)].err = "ErrUnterminatedString"
    /\ reports[Len(reports)].line >= 2

(***************************************************************************)
(* C8: the reports are the errors of the calls of scanToken, one report    *)
(* for each call that met an error, in the order of the source, each with  *)
(* the line the cursor is on; the positions of the reports increase and    *)
(* their lines do not decrease.                                            *)
(***************************************************************************)
C8_OneReportPerError ==
    /\ Len(reports) = Len(Detected)
    /\ Len(reportAt) = Len(reports)
    /\ \A k \in 1..Len(reports) :
          /\ k <= Len(Detected)
          /\ reports[k].err = ErrorOf(Detected[k][1], Detected[k][2])
          /\ reportAt[k] = Detected[k][2]
          /\ reports[k].line = 1 + Newlines(reportAt[k])
    /\ \A k \in 1..(Len(reports) - 1) :
          /\ reportAt[k] < reportAt[k + 1]
          /\ reports[k].line <= reports[k + 1].line

\* a scan has ended with three reports, not all of the same error
C8_Witness ==
    /\ pc = "done"
    /\ Len(reports) >= 3
    /\ reports[1].err # reports[Len(reports)].err

(***************************************************************************)
(* C9: a call of scanToken for '!', '=', '<' or '>' consumes the next rune *)
(* if and only if it is '=', adds the token of the two runes if it does    *)
(* and of the one rune if not, reports nothing, and the call after it      *)
(* starts at the rune it left.                                             *)
(***************************************************************************)
C9_OperatorLookahead ==
    /\ \A i \in 1..Len(scanned) :
          LET s == scanned[i][1]
              e == scanned[i][2]
              two == s + 2 <= Len(source) /\ source[s + 2] = Equal
          IN  source[s + 1] \in DOMAIN Operators =>
                  /\ e = IF two THEN s + 2 ELSE s + 1
                  /\ \E j \in 1..Len(tokens) :
                        /\ spans[j] = <<s, e>>
                        /\ tokens[j].TokenType = Operators[source[s + 1]][IF two THEN 2 ELSE 1]
                        /\ tokens[j].Literal = Nil
                  /\ \A k \in 1..Len(reports) : reportAt[k] # e
                  /\ i < Len(scanned) => scanned[i + 1][1] = e
    /\ pc = "done" /\ source = <<Bang, Equal, Less, Less, Equal>> =>
          /\ TokenTypes = <<"BANG_EQUAL", "LESS", "LESS_EQUAL", "EOF">>
          /\ reports = <<>>
    /\ pc = "done" /\ source = <<Equal, Equal, Equal>> =>
          /\ TokenTypes = <<"EQUAL_EQUAL", "EQUAL", "EOF">>
          /\ reports = <<>>

\* the scan of !=<<= has ended
C9_Witness ==
    /\ pc = "done"
    /\ source = <<Bang, Equal, Less, Less, Equal>>

(***************************************************************************)
(* C10: a call of scanToken for "//" consumes the runes up to the next     *)
(* newline or the end of the input and not the newline, adds no token and  *)
(* reports nothing; the newline is consumed by the next call, and a token  *)
(* after the comment is one line further than the comment for that         *)
(* newline, and one more for every newline that follows up to its end.     *)
(***************************************************************************)
C10_LineComment ==
    \A i \in 1..Len(scanned) :
        LET s == scanned[i][1]
            e == scanned[i][2]
        IN  OpensLineComment(s) =>
                /\ e >= s + 2
                /\ \A q \in (s + 1)..e : source[q] # Newline
                /\ e = Len(source) \/ source[e + 1] = Newline
                /\ \A j \in 1..Len(tokens) : ~(s <= spans[j][1] /\ spans[j][1] < e)
                /\ \A k \in 1..Len(reports) : ~(s < reportAt[k] /\ reportAt[k] <= e)
                /\ i < Len(scanned) => scanned[i + 1] = <<e, e + 1>>
                /\ \A j \in 1..Len(tokens) :
                      spans[j][1] > e =>
                          tokens[j].Line = (1 + Newlines(s)) + 1
                                             + (Newlines(spans[j][2]) - Newlines(e + 1))

\* a scan has ended that has a line comment with text in it and a token on
\* the line after the comment
C10_Witness ==
    /\ pc = "done"
    /\ \E i \in 1..Len(scanned), j \in 1..Len(tokens) :
          /\ OpensLineComment(scanned[i][1])
          /\ scanned[i][2] >= scanned[i][1] + 3
          /\ tokens[j].TokenType # "EOF"
          /\ spans[j][1] = scanned[i][2] + 1
          /\ tokens[j].Line = 2 + Newlines(scanned[i][1])

\* a rune that starts no lexeme: no punctuation, no start of an operator, no
\* slash, no blank, no newline, no double quote, no ASCII digit, no ASCII
\* letter and no underscore
Unexpected(r) ==
    /\ r \notin DOMAIN Punctuation \cup DOMAIN Operators \cup {Slash}
    /\ r \notin {Space, CarriageReturn, Tab, Newline, Quote, Underscore}
    /\ r \notin Digit0..Digit9
    /\ r \notin LowerA..LowerZ \cup UpperA..UpperZ

\* a step of scanToken on a rune that starts no lexeme: the one rune is
\* consumed, one error is reported for the current line, no token is added,
\* the line stays and the next call of scanToken is due
UnexpectedStep ==
    pc = "scan" /\ current < Len(source) /\ Unexpected(source[current + 1]) =>
        /\ current' = current + 1
        /\ line' = line
        /\ tokens' = tokens
        /\ reports' = Append(reports, [line |-> line, err |-> "ErrUnexpectedCharacter"])
        /\ pc' = "scan"

\* every call of scanToken made so far on a rune that starts no lexeme
\* consumed that rune alone, left one report, for the line of the rune, and
\* no token, and the call after it started at the next rune
UnexpectedCalls ==
    \A i \in 1..Len(scanned) :
        LET s == scanned[i][1]
            e == scanned[i][2]
        IN  Unexpected(source[s + 1]) =>
                /\ e = s + 1
                /\ Cardinality({k \in 1..Len(reports) : reportAt[k] = e}) = 1
                /\ \A k \in 1..Len(reports) :
                      reportAt[k] = e =>
                          reports[k] = [line |-> 1 + Newlines(s),
                                        err  |-> "ErrUnexpectedCharacter"]
                /\ \A j \in 1..Len(tokens) : ~(spans[j][1] <= s /\ s < spans[j][2])
                /\ i < Len(scanned) => scanned[i + 1][1] = e

(***************************************************************************)
(* C11: a rune that starts no lexeme, met outside a string and a comment,  *)
(* is reported once as ErrUnexpectedCharacter for the current line, adds   *)
(* no token, is the only rune consumed, leaves the line as it was, and the *)
(* scan goes on at the rune after it.                                      *)
(***************************************************************************)
C11_UnexpectedCharacter ==
    /\ [][UnexpectedStep]_vars
    /\ [](UnexpectedCalls)

\* a scan has ended that reported a rune on the second line, after a token
\* and before another
C11_Witness ==
    /\ pc = "done"
    /\ \E i \in 1..Len(scanned) :
          /\ Unexpected(source[scanned[i][1] + 1])
          /\ Newlines(scanned[i][1]) = 1
          /\ \E k \in 1..Len(reports) : reportAt[k] = scanned[i][2] /\ reports[k].line = 2
          /\ \E j \in 1..Len(tokens) :
                spans[j][1] = scanned[i][2] /\ tokens[j].TokenType # "EOF"
          /\ \E j \in 1..Len(tokens) : spans[j][2] = scanned[i][1]

\* the places q after the "/*" at source[s], source[s + 1] where source[q],
\* source[q + 1] are "*/" (q counts the runes from 1)
Closings(s) ==
    {q \in (s + 3)..(Len(source) - 1) : source[q] = Star /\ source[q + 1] = Slash}

\* the least element of a set of numbers that has one
Least(S) == CHOOSE q \in S : \A r \in S : q <= r

(***************************************************************************)
(* C12: block comments do not nest.  A call of scanToken for "/*" that has *)
(* a "*/" after the two runes ends behind the first such "*/"; a "/*"      *)
(* inside changes nothing, and the '*' of the opening is not the '*' of a  *)
(* closing, so "/*/" is not closed.  The comment adds no token and reports *)
(* nothing, and a token after it is one line further for every newline in  *)
(* the comment.                                                            *)
(***************************************************************************)
C12_BlockComment ==
    /\ \A i \in 1..Len(scanned) :
          LET s == scanned[i][1]
              e == scanned[i][2]
          IN  OpensBlockComment(s) /\ Closings(s) # {} =>
                  /\ e = Least(Closings(s)) + 1
                  /\ \A j \in 1..Len(tokens) : ~(s <= spans[j][1] /\ spans[j][1] < e)
                  /\ \A k \in 1..Len(reports) : ~(s < reportAt[k] /\ reportAt[k] <= e)
                  /\ i < Len(scanned) => scanned[i + 1][1] = e
                  /\ \A j \in 1..Len(tokens) :
                        spans[j][1] >= e =>
                            tokens[j].Line = (1 + Newlines(s))
                                               + (Newlines(e) - Newlines(s))
                                               + (Newlines(spans[j][2]) - Newlines(e))
    /\ pc = "done" /\ source = <<Slash, Star, Slash, Star, Star, Slash>> =>
          /\ tokens = <<EOFToken(1)>>
          /\ reports = <<>>
    /\ pc = "done" /\ source = <<Slash, Star, Slash>> =>
          /\ tokens = <<EOFToken(1)>>
          /\ reports = <<[line |-> 1, err |-> "ErrUnterminatedBlockComment"]>>

\* a scan has ended that has a closed block comment with a "/*" and a
\* newline in it, and the token after it is on the second line
C12_Witness ==
    /\ pc = "done"
    /\ \E i \in 1..Len(scanned), j \in 1..Len(tokens) :
          LET s == scanned[i][1]
              e == scanned[i][2]
          IN  /\ OpensBlockComment(s)
              /\ Closings(s) # {}
              /\ \E q \in (s + 3)..(e - 2) : source[q] = Slash /\ source[q + 1] = Star
              /\ Newlines(e) - Newlines(s) = 1
              /\ spans[j][1] = e
              /\ tokens[j].Line = 2

(***************************************************************************)
(* C13: a call of scanToken for a "/*" with no "*/" after it consumes the  *)
(* rest of the source, a source that ends with "/*" or with a lone '*'     *)
(* included, and reports ErrUnterminatedBlockComment once, for the line    *)
(* the end of the source is on.  The text of the comment gives no token:   *)
(* the only token after the tokens before the comment is EOF.              *)
(***************************************************************************)
C13_UnterminatedBlockComment ==
    /\ \A i \in 1..Len(scanned) :
          LET s == scanned[i][1]
              e == scanned[i][2]
          IN  OpensUnterminatedComment(s) =>
                  /\ e = Len(source)
                  /\ i = Len(scanned)
                  /\ Cardinality({k \in 1..Len(reports) : reportAt[k] > s}) = 1
                  /\ reportAt[Len(reports)] = e
                  /\ reports[Len(reports)] =
                         [line |-> 1 + Newlines(Len(source)),
                          err  |-> "ErrUnterminatedBlockComment"]
                  /\ \A j \in 1..Len(tokens) :
                        \/ spans[j][2] <= s
                        \/ /\ j = Len(tokens)
                           /\ pc = "done"
                           /\ tokens[j] = EOFToken(1 + Newlines(Len(source)))
                  /\ pc = "done" => tokens[Len(tokens)].TokenType = "EOF"
    /\ pc = "done" /\ source = <<Slash, Star>> =>
          /\ tokens = <<EOFToken(1)>>
          /\ reports = <<[line |-> 1, err |-> "ErrUnterminatedBlockComment"]>>
    /\ pc = "done" /\ source = <<49, Slash, Star, Newline, Star>> =>
          /\ TokenTypes = <<"NUMBER", "EOF">>
          /\ tokens[2] = EOFToken(2)
          /\ reports = <<[line |-> 2, err |-> "ErrUnterminatedBlockComment"]>>

\* a scan has ended in a block comment that was opened after a token, has a
\* newline and ends with a lone '*'
C13_Witness ==
    /\ pc = "done"
    /\ Len(tokens) = 2
    /\ Len(reports) = 1
    /\ reports[1].err = "ErrUnterminatedBlockComment"
    /\ reports[1].line = 2
    /\ source[Len(source)] = Star
    /\ scanned[Len(scanned)][2] - scanned[Len(scanned)][1] >= 4

\* the end of the longest run of ASCII digits that starts behind the first p
\* runes of the source
DigitsEnd(p) ==
    Least({q \in p..Len(source) : q = Len(source) \/ source[q + 1] \notin Digit0..Digit9})

\* the end of the number that starts with the digit source[s + 1]: the
\* digits, and a '.' with the digits after it where a digit follows the '.'
NumberEndOf(s) ==
    LET d == DigitsEnd(s)
    IN  IF d + 2 <= Len(source) /\ source[d + 1] = Dot /\ source[d + 2] \in Digit0..Digit9
        THEN DigitsEnd(d + 1)
        ELSE d

\* the lexemes of the tokens
Lexemes == [k \in 1..Len(tokens) |-> tokens[k].Lexeme]

(***************************************************************************)
(* C14: a number is the longest run of digits, and then a '.' with the     *)
(* longest run of digits after it where a digit follows the '.' directly.  *)
(* A '.' with no digit after it is not part of the number and is scanned   *)
(* as DOT: "1." is NUMBER, DOT and "1.0.1" is NUMBER "1.0", DOT, NUMBER    *)
(* "1".  The lexeme of a NUMBER token is the whole text matched, and has   *)
(* digits and at most one '.' in it: no sign and no exponent.              *)
(***************************************************************************)
C14_NumberLexeme ==
    /\ \A i \in 1..Len(scanned) :
          LET s == scanned[i][1]
              e == scanned[i][2]
          IN  source[s + 1] \in Digit0..Digit9 =>
                  /\ e = NumberEndOf(s)
                  /\ \/ \E j \in 1..Len(tokens) :
                           /\ spans[j] = <<s, e>>
                           /\ tokens[j].TokenType = "NUMBER"
                           /\ tokens[j].Lexeme = SubSeq(source, s + 1, e)
                           /\ tokens[j].Literal = NumberLiteral(ParseFloat(tokens[j].Lexeme))
                     \/ \E k \in 1..Len(reports) :
                           reportAt[k] = e /\ reports[k].err = "ErrInvalidNumberLiteral"
                  /\ i < Len(scanned) => scanned[i + 1][1] = e
    /\ \A j \in 1..Len(tokens) :
          tokens[j].TokenType = "NUMBER" =>
              LET text == tokens[j].Lexeme
              IN  /\ text # <<>>
                  /\ text[1] \in Digit0..Digit9
                  /\ text[Len(text)] \in Digit0..Digit9
                  /\ \A q \in 1..Len(text) : text[q] \in Digit0..Digit9 \cup {Dot}
                  /\ Cardinality({q \in 1..Len(text) : text[q] = Dot}) <= 1
    /\ pc = "done" /\ source = <<49, Dot>> =>
          /\ TokenTypes = <<"NUMBER", "DOT", "EOF">>
          /\ Lexemes = << <<49>>, <<Dot>>, <<>> >>
    /\ pc = "done" /\ source = <<49, Dot, Digit0, Dot, 49>> =>
          /\ TokenTypes = <<"NUMBER", "DOT", "NUMBER", "EOF">>
          /\ Lexemes = << <<49, Dot, Digit0>>, <<Dot>>, <<49>>, <<>> >>
    /\ pc = "done" /\ source = <<49, 101, 45, 49>> =>
          /\ TokenTypes = <<"NUMBER", "IDENTIFIER", "MINUS", "NUMBER", "EOF">>
          /\ Lexemes = << <<49>>, <<101>>, <<45>>, <<49>>, <<>> >>
    /\ pc = "done" /\ source = <<45, Dot, 49>> =>
          /\ TokenTypes = <<"MINUS", "DOT", "NUMBER", "EOF">>

\* the scan of 1.0.1 has ended
C14_Witness ==
    /\ pc = "done"
    /\ source = <<49, Dot, Digit0, Dot, 49>>
    /\ Len(tokens) = 4

\* an ASCII letter or the underscore
Letter(r) == r \in LowerA..LowerZ \cup UpperA..UpperZ \cup {Underscore}

\* the end of the longest run of ASCII letters, digits and underscores that
\* starts behind the first p runes of the source
WordEnd(p) ==
    Least({q \in p..Len(source) :
              \/ q = Len(source)
              \/ ~(Letter(source[q + 1]) \/ source[q + 1] \in Digit0..Digit9)})

(***************************************************************************)
(* C15: an identifier is the longest run of ASCII letters, digits and      *)
(* underscores that starts with a letter or an underscore.  Its token has  *)
(* the type of a keyword when the whole text is, with the same case, one   *)
(* of the 16 keywords, and the type IDENTIFIER otherwise, and has no       *)
(* literal: "orchid", "and1" and "_if" are one IDENTIFIER each.            *)
(***************************************************************************)
C15_IdentifierOrKeyword ==
    /\ \A i \in 1..Len(scanned) :
          LET s == scanned[i][1]
              e == scanned[i][2]
              text == SubSeq(source, s + 1, e)
          IN  Letter(source[s + 1]) =>
                  /\ e = WordEnd(s)
                  /\ \E j \in 1..Len(tokens) :
                        /\ spans[j] = <<s, e>>
                        /\ tokens[j].Lexeme = text
                        /\ tokens[j].Literal = Nil
                        /\ tokens[j].TokenType =
                               IF text \in DOMAIN keywords THEN keywords[text]
                                                            ELSE "IDENTIFIER"
                  /\ \A k \in 1..Len(reports) : ~(s < reportAt[k] /\ reportAt[k] <= e)
                  /\ i < Len(scanned) => scanned[i + 1][1] = e
    /\ Cardinality(DOMAIN keywords) = 16
    /\ \A w \in DOMAIN keywords :
          /\ keywords[w] # "IDENTIFIER"
          /\ \A q \in 1..Len(w) : w[q] \in LowerA..LowerZ
          /\ pc = "done" /\ source = w => TokenTypes = <<keywords[w], "EOF">>
    /\ pc = "done" /\ source \in {<<111, 114, 99, 104, 105, 100>>,
                                  <<97, 110, 100, 49>>,
                                  <<Underscore, 105, 102>>,
                                  <<79, 114>>} =>
          /\ TokenTypes = <<"IDENTIFIER", "EOF">>
          /\ tokens[1].Lexeme = source
          /\ tokens[1].Literal = Nil
    /\ pc = "done" /\ source = <<111, 114, Space, 111, 114, 49>> =>
          TokenTypes = <<"OR", "IDENTIFIER", "EOF">>

\* the scan of a text has ended that has a keyword and an identifier that
\* starts with the keyword
C15_Witness ==
    /\ pc = "done"
    /\ \E j, k \in 1..Len(tokens) :
          /\ tokens[j].TokenType = "OR"
          /\ tokens[k].TokenType = "IDENTIFIER"
          /\ Len(tokens[k].Lexeme) > 2
          /\ SubSeq(tokens[k].Lexeme, 1, 2) = tokens[j].Lexeme

\* the places q after the double quote source[s + 1] where source[q] is a
\* double quote (q counts the runes from 1)
Quotes(s) == {q \in (s + 2)..Len(source) : source[q] = Quote}

(***************************************************************************)
(* C16: the lexeme of a STRING token is a double quote, the literal and a  *)
(* double quote, and the literal has no double quote in it: the first      *)
(* double quote after the opening one closes the string, whatever is       *)
(* before it, a backslash included.  The tokens of the types other than    *)
(* STRING and NUMBER have no literal.                                      *)
(***************************************************************************)
C16_StringLiteral ==
    /\ \A j \in 1..Len(tokens) :
          /\ tokens[j].TokenType = "STRING" =>
                /\ tokens[j].Literal.kind = "string"
                /\ tokens[j].Lexeme = <<Quote>> \o tokens[j].Literal.value \o <<Quote>>
                /\ \A q \in 1..Len(tokens[j].Literal.value) :
                      tokens[j].Literal.value[q] # Quote
          /\ tokens[j].TokenType \notin {"STRING", "NUMBER"} => tokens[j].Literal = Nil
    /\ \A i \in 1..Len(scanned) :
          LET s == scanned[i][1]
              e == scanned[i][2]
          IN  source[s + 1] = Quote /\ Quotes(s) # {} =>
                  /\ e = Least(Quotes(s))
                  /\ \E j \in 1..Len(tokens) :
                        /\ spans[j] = <<s, e>>
                        /\ tokens[j].TokenType = "STRING"
                        /\ tokens[j].Literal = StringLiteral(SubSeq(source, s + 2, e - 1))
                  /\ i < Len(scanned) => scanned[i + 1][1] = e
    /\ pc = "done" /\ source = <<Quote, 92, Quote, 111, Quote>> =>
          /\ TokenTypes = <<"STRING", "IDENTIFIER", "EOF">>
          /\ tokens[1].Lexeme = <<Quote, 92, Quote>>
          /\ tokens[1].Literal = StringLiteral(<<92>>)
          /\ reports = <<[line |-> 1, err |-> "ErrUnterminatedString"]>>

\* the scan of "\"o" has ended
C16_Witness ==
    /\ pc = "done"
    /\ source = <<Quote, 92, Quote, 111, Quote>>
    /\ tokens[1].TokenType = "STRING"

\* a step of scanToken on a space, a carriage return or a tab, and on a
\* newline: the rune is consumed, no token is added, nothing is reported and
\* the flag stays; the line stays for the first three and is one more for the
\* newline
BlankStep ==
    pc = "scan" /\ current < Len(source)
                /\ source[current + 1] \in {Space, CarriageReturn, Tab, Newline} =>
        /\ current' = current + 1
        /\ tokens' = tokens
        /\ reports' = reports
        /\ hadError' = hadError
        /\ line' = IF source[current + 1] = Newline THEN line + 1 ELSE line
        /\ pc' = "scan"

\* the calls of scanToken made so far on a blank or a newline consumed that
\* rune alone and left no token and no report, and no token but a STRING has
\* a blank or a newline in its lexeme
BlankCalls ==
    /\ \A i \in 1..Len(scanned) :
          LET s == scanned[i][1]
              e == scanned[i][2]
          IN  source[s + 1] \in {Space, CarriageReturn, Tab, Newline} =>
                  /\ e = s + 1
                  /\ \A j \in 1..Len(tokens) : ~(spans[j][1] <= s /\ s < spans[j][2])
                  /\ \A k \in 1..Len(reports) : reportAt[k] # e
                  /\ i < Len(scanned) => scanned[i + 1][1] = e
    /\ \A j \in 1..Len(tokens) :
          tokens[j].TokenType # "STRING" =>
              \A q \in 1..Len(tokens[j].Lexeme) :
                  tokens[j].Lexeme[q] \notin {Space, CarriageReturn, Tab, Newline}
    /\ \A j \in 1..Len(tokens) : tokens[j].Line = 1 + Newlines(spans[j][2])

(***************************************************************************)
(* C17: outside a string and a comment, a space, a carriage return and a   *)
(* tab add no token, report nothing and leave the line as it is, and a     *)
(* newline adds no token, reports nothing and makes the line one more.     *)
(* Blanks leave nothing in the tokens but the Line of the tokens after     *)
(* them.                                                                   *)
(***************************************************************************)
C17_Whitespace ==
    /\ [][BlankStep]_vars
    /\ [](BlankCalls)

\* a scan has ended that has a carriage return, a tab, a space and a newline
\* before a token on the second line
C17_Witness ==
    /\ pc = "done"
    /\ reports = <<>>
    /\ {source[q] : q \in 1..(Len(source) - 1)} = {Space, CarriageReturn, Tab, Newline}
    /\ Len(tokens) = 2
    /\ tokens[1].Line = 2

(***************************************************************************)
(* C18: decoding the text of a number never fails.  Every call of          *)
(* scanToken that starts with a digit adds a NUMBER token for the text it  *)
(* matched, and ErrInvalidNumberLiteral is never reported.                 *)
(***************************************************************************)
C18_DecodingNeverFails ==
    /\ \A k \in 1..Len(reports) : reports[k].err # "ErrInvalidNumberLiteral"
    /\ \A i \in 1..Len(scanned) :
          source[scanned[i][1] + 1] \in Digit0..Digit9 =>
              \E j \in 1..Len(tokens) :
                  /\ spans[j] = <<scanned[i][1], scanned[i][2]>>
                  /\ tokens[j].TokenType = "NUMBER"

\* the scan of a run of digits has ended with a report of
\* ErrInvalidNumberLiteral and no token but EOF
C18_Witness ==
    /\ pc = "done"
    /\ \A q \in 1..Len(source) : source[q] \in Digit0..Digit9
    /\ Len(source) >= MaxFloatDigits
    /\ reports = <<[line |-> 1, err |-> "ErrInvalidNumberLiteral"]>>
    /\ TokenTypes = <<"EOF">>

\* the positions of pc inside ScanTokens
Scanning == {"scan", "lineComment", "blockComment", "string", "number", "fraction",
             "identifier"}

\* a step that resets the flag is the step of runPrompt after a line
ResetOnlyAfterLine ==
    hadError /\ ~hadError' => pc = "done" /\ pc' = "prompt" /\ args = 0

\* a step that sets the flag is a step of the scanner that reports
SetOnlyByReport ==
    ~hadError /\ hadError' => pc \in Scanning /\ Len(reports') = Len(reports) + 1

\* the flag at the positions of the driver
FlagOfRun ==
    /\ pc \in {"main", "prompt"} => ~hadError
    /\ pc \in Scanning \cup {"done"} => hadError = (reports # <<>>)
    /\ pc = "exited" /\ args = 1 /\ tokens # <<>> =>
          /\ hadError = (reports # <<>>)
          /\ exitStatus = IF hadError THEN <<65>> ELSE <<0>>
    /\ pc = "exited" /\ args # 1 => ~hadError /\ exitStatus # <<65>>

(***************************************************************************)
(* C19: hadError is false before the first scan, is set by the first       *)
(* report of a run and stays set to the end of the run, where it is true   *)
(* exactly when the run reported an error.  runPrompt resets it after      *)
(* every line, so the run of a line without errors ends with the flag      *)
(* false whatever the lines before it did, and runFile exits with status   *)
(* 65 exactly when the flag is true after its run.                         *)
(***************************************************************************)
C19_HadError ==
    /\ [][ResetOnlyAfterLine /\ SetOnlyByReport]_vars
    /\ [](FlagOfRun)

\* the run of a line with no error has ended, after a line with an error
C19_Witness ==
    /\ pc = "done"
    /\ args = 0
    /\ failedBefore
    /\ ~hadError
    /\ Len(tokens) >= 2

\* start and current are indexes of the source, in this order
CursorInBounds ==
    /\ 0 <= start
    /\ start <= current
    /\ current <= Len(source)

\* where the loops of the scanner are about to call advance, current is
\* before the end of the source; where they call it twice, for "*/", or
\* for the '.' of a fraction, the rune after is there too
AdvanceInBounds ==
    /\ pc = "lineComment" /\ peek(current) # Newline /\ ~isAtEnd(current) =>
          current < Len(source)
    /\ pc = "blockComment" /\ ~isAtEnd(current) =>
          /\ current < Len(source)
          /\ peek(current) = Star /\ peekNext(current) = Slash => current + 1 < Len(source)
    /\ pc = "string" /\ peek(current) # Quote /\ ~isAtEnd(current) => current < Len(source)
    /\ pc = "string" /\ ~(peek(current) # Quote /\ ~isAtEnd(current)) /\ ~isAtEnd(current) =>
          current < Len(source) /\ source[current + 1] = Quote
    /\ pc \in {"number", "fraction"} /\ isDigit(peek(current)) => current < Len(source)
    /\ pc = "number" /\ peek(current) = Dot /\ isDigit(peekNext(current)) =>
          current + 1 < Len(source)
    /\ pc = "identifier" /\ isAlphaNumeric(peek(current)) => current < Len(source)
    /\ pc = "scan" /\ ~isAtEnd(current) =>
          /\ current < Len(source)
          /\ \A expected \in {Equal, Slash, Star} :
                match(advance(current), expected) => current + 1 < Len(source)

\* a step moves neither start nor current back, and moves current by the
\* runes it read, two at most, which are runes of the source
CursorStep ==
    /\ start' >= start
    /\ current' >= current
    /\ current' - current \in 0..2
    /\ current' # current => current < Len(source) /\ current' <= Len(source)

(***************************************************************************)
(* C20: in every state of the scanner 0 <= start <= current <=             *)
(* len(source); start and current never decrease; advance is called only   *)
(* with current < len(source), the two calls for "*/", the call for the    *)
(* closing quote and the call for the '.' of a fraction included.  No      *)
(* index outside the source is read, for sources that end inside a lexeme  *)
(* and sources with U+0000, the value peek returns at the end, too.        *)
(***************************************************************************)
C20_CursorBounds ==
    /\ [](CursorInBounds /\ AdvanceInBounds)
    /\ [][CursorStep]_vars

\* a scan has ended in an open string or block comment that has U+0000 in
\* it, with the cursor at the end of the source
C20_Witness ==
    /\ pc = "done"
    /\ current = Len(source)
    /\ reports # <<>>
    /\ reports[Len(reports)].err \in {"ErrUnterminatedString", "ErrUnterminatedBlockComment"}
    /\ \E q \in (scanned[Len(scanned)][1] + 1)..Len(source) : source[q] = NulRune

=============================================================================
